---- MODULE Spec2Model ----
(***************************************************************************)
(* A model of s3url.Parse (src/s3url.go).  Parse is a pure function of its *)
(* input string, so the state machine draws an input, applies Parse once   *)
(* and records every intermediate value of the call.                       *)
(*                                                                         *)
(* A Go string is a sequence of bytes; here it is a sequence of one-byte   *)
(* strings, <<"s", "3", ":">> for "s3:".  A byte outside printable ASCII   *)
(* or the backquote (which the TLA+ lexer cannot hold) is written "0xNN". *)
(***************************************************************************)
EXTENDS Integers, Sequences, FiniteSets, TLC

VARIABLES value, pc, ret

vars == <<value, pc, ret>>

(***************************************************************************)
(* Bytes                                                                   *)
(***************************************************************************)
Ascii ==
  << " ", "!", "\"", "#", "$", "%", "&", "'", "(", ")", "*", "+", ",", "-", ".", "/",
     "0", "1", "2", "3", "4", "5", "6", "7", "8", "9", ":", ";", "<", "=", ">", "?",
     "@", "A", "B", "C", "D", "E", "F", "G", "H", "I", "J", "K", "L", "M", "N", "O",
     "P", "Q", "R", "S", "T", "U", "V", "W", "X", "Y", "Z", "[", "\\", "]", "^", "_",
     "0x60", "a", "b", "c", "d", "e", "f", "g", "h", "i", "j", "k", "l", "m", "n", "o",
     "p", "q", "r", "s", "t", "u", "v", "w", "x", "y", "z", "{", "|", "}", "~" >>

upperhex ==
  << "0", "1", "2", "3", "4", "5", "6", "7", "8", "9", "A", "B", "C", "D", "E", "F" >>

lowerhex ==
  << "0", "1", "2", "3", "4", "5", "6", "7", "8", "9", "a", "b", "c", "d", "e", "f" >>

\* The byte with code n.
Byte(n) ==
  IF n >= 32 /\ n <= 126 THEN Ascii[n - 31]
  ELSE "0x" \o upperhex[(n \div 16) + 1] \o upperhex[(n % 16) + 1]

ByteTable == [n \in 0..255 |-> Byte(n)]

\* The code of byte c.
Code(c) == CHOOSE n \in 0..255 : ByteTable[n] = c

Printable == {Ascii[i] : i \in 1..95}

\* The bytes below 0x20 and 0x7F: the ASCII control bytes.
ControlBytes == {ByteTable[n] : n \in 0..31} \cup {ByteTable[127]}

\* The bytes below 0x80.
AsciiBytes == {ByteTable[n] : n \in 0..127}

LowerAlpha == {Ascii[i] : i \in 66..91}

UpperAlpha == {Ascii[i] : i \in 34..59}

Digit == {Ascii[i] : i \in 17..26}

AlphaNum == LowerAlpha \cup UpperAlpha \cup Digit

\* net/url ishex
ishex(c) == c \in Digit \/ c \in {"a", "b", "c", "d", "e", "f", "A", "B", "C", "D", "E", "F"}

\* net/url unhex
unhex(c) ==
  IF c \in Digit THEN (CHOOSE i \in 1..16 : upperhex[i] = c) - 1
  ELSE IF c \in {"a", "b", "c", "d", "e", "f"} THEN (CHOOSE i \in 1..16 : lowerhex[i] = c) - 1
  ELSE IF c \in {"A", "B", "C", "D", "E", "F"} THEN (CHOOSE i \in 1..16 : upperhex[i] = c) - 1
  ELSE 0

\* strings.ToLower on one byte
ToLowerByte(c) == IF c \in UpperAlpha THEN Byte(Code(c) + 32) ELSE c

(***************************************************************************)
(* package strings                                                         *)
(***************************************************************************)
\* s[i:] with a 0-based Go index i
From(s, i) == SubSeq(s, i + 1, Len(s))

\* s[:i] with a 0-based Go index i
Upto(s, i) == SubSeq(s, 1, i)

\* strings.HasPrefix
HasPrefix(s, p) == Len(s) >= Len(p) /\ SubSeq(s, 1, Len(p)) = p

\* strings.HasSuffix
HasSuffix(s, p) == Len(s) >= Len(p) /\ SubSeq(s, Len(s) - Len(p) + 1, Len(s)) = p

\* Whether sub occurs in s at the 0-based index i.
OccursAt(s, sub, i) ==
  i + Len(sub) <= Len(s) /\ SubSeq(s, i + 1, i + Len(sub)) = sub

\* strings.Index: the 0-based index of the first occurrence of sub, or -1
Index(s, sub) ==
  IF \E i \in 0..(Len(s) - Len(sub)) : OccursAt(s, sub, i)
  THEN CHOOSE i \in 0..(Len(s) - Len(sub)) :
         /\ OccursAt(s, sub, i)
         /\ \A j \in 0..(i - 1) : ~OccursAt(s, sub, j)
  ELSE -1

\* strings.LastIndex
LastIndex(s, sub) ==
  IF \E i \in 0..(Len(s) - Len(sub)) : OccursAt(s, sub, i)
  THEN CHOOSE i \in 0..(Len(s) - Len(sub)) :
         /\ OccursAt(s, sub, i)
         /\ \A j \in (i + 1)..(Len(s) - Len(sub)) : ~OccursAt(s, sub, j)
  ELSE -1

\* strings.Contains
Contains(s, sub) == Index(s, sub) >= 0

\* strings.Count for a one-byte separator
Count(s, c) == Cardinality({i \in 1..Len(s) : s[i] = c})

\* strings.Cut: <<before, after, found>>
Cut(s, sep) ==
  LET i == Index(s, sep)
  IN IF i >= 0 THEN [before |-> Upto(s, i), after |-> From(s, i + Len(sep)), found |-> TRUE]
     ELSE [before |-> s, after |-> <<>>, found |-> FALSE]

\* strings.ToLower
ToLower(s) == [i \in 1..Len(s) |-> ToLowerByte(s[i])]

\* strings.Trim(s, cutset): every leading and trailing byte of cutset is removed
Trim(s, cutset) ==
  LET keep == {i \in 1..Len(s) : s[i] \notin cutset}
  IN IF keep = {} THEN <<>>
     ELSE LET lo == CHOOSE i \in keep : \A j \in keep : i <= j
              hi == CHOOSE i \in keep : \A j \in keep : j <= i
          IN SubSeq(s, lo, hi)

\* strings.SplitN(s, sep, 2) for a non-empty sep
SplitN2(s, sep) ==
  LET i == Index(s, sep)
  IN IF i < 0 THEN <<s>> ELSE <<Upto(s, i), From(s, i + Len(sep))>>

\* strings.Replace(s, old, new, 1) for a non-empty old
Replace1(s, old, new) ==
  LET i == Index(s, old)
  IN IF i < 0 THEN s ELSE Upto(s, i) \o new \o From(s, i + Len(old))

(***************************************************************************)
(* net/url: escaping                                                       *)
(***************************************************************************)
\* net/url shouldEscape(c, mode)
shouldEscape(c, mode) ==
  IF c \in AlphaNum THEN FALSE
  ELSE IF mode \in {"encodeHost", "encodeZone"}
          /\ c \in {"!", "$", "&", "'", "(", ")", "*", "+", ",", ";", "=", ":", "[", "]",
                    "<", ">", "\""}
       THEN FALSE
  ELSE IF c \in {"-", "_", ".", "~"} THEN FALSE
  ELSE IF c \in {"$", "&", "+", ",", "/", ":", ";", "=", "?", "@"}
       THEN CASE mode = "encodePath" -> c = "?"
              [] mode = "encodePathSegment" -> c \in {"/", ";", ",", "?"}
              [] mode = "encodeUserPassword" -> c \in {"@", "/", "?", ":"}
              [] mode = "encodeQueryComponent" -> TRUE
              [] mode = "encodeFragment" -> FALSE
              [] OTHER -> TRUE
  ELSE IF mode = "encodeFragment" /\ c \in {"!", "(", ")", "*"} THEN FALSE
  ELSE TRUE

\* net/url escape(s, encodeQueryComponent) on one byte
escapeByte(c) ==
  IF c = " " THEN <<"+">>
  ELSE IF shouldEscape(c, "encodeQueryComponent")
       THEN <<"%", upperhex[(Code(c) \div 16) + 1], upperhex[(Code(c) % 16) + 1]>>
  ELSE <<c>>

RECURSIVE escapeFrom(_, _)
escapeFrom(s, i) ==
  IF i > Len(s) THEN <<>> ELSE escapeByte(s[i]) \o escapeFrom(s, i + 1)

\* url.QueryEscape
QueryEscape(s) == escapeFrom(s, 1)

\* The first pass of net/url unescape: whether s is well formed for mode.
unescapeOk(s, mode) ==
  \A i \in 1..Len(s) :
    IF s[i] = "%"
    THEN /\ i + 2 <= Len(s)
         /\ ishex(s[i + 1])
         /\ ishex(s[i + 2])
         /\ ~(mode = "encodeHost" /\ unhex(s[i + 1]) < 8 /\ SubSeq(s, i, i + 2) # <<"%", "2", "5">>)
         /\ ~(/\ mode = "encodeZone"
              /\ SubSeq(s, i, i + 2) # <<"%", "2", "5">>
              /\ Byte(unhex(s[i + 1]) * 16 + unhex(s[i + 2])) # " "
              /\ shouldEscape(Byte(unhex(s[i + 1]) * 16 + unhex(s[i + 2])), "encodeHost"))
    ELSE IF s[i] = "+" THEN TRUE
    ELSE ~(/\ mode \in {"encodeHost", "encodeZone"}
           /\ s[i] \in AsciiBytes
           /\ shouldEscape(s[i], "encodeHost"))

\* The second pass of net/url unescape: %XX becomes its byte, and '+' a space in a
\* query component only.
RECURSIVE unescapeFrom(_, _, _)
unescapeFrom(s, i, mode) ==
  IF i > Len(s) THEN <<>>
  ELSE IF s[i] = "%"
       THEN <<Byte(unhex(s[i + 1]) * 16 + unhex(s[i + 2]))>> \o unescapeFrom(s, i + 3, mode)
  ELSE IF s[i] = "+" /\ mode = "encodeQueryComponent"
       THEN <<" ">> \o unescapeFrom(s, i + 1, mode)
  ELSE <<s[i]>> \o unescapeFrom(s, i + 1, mode)

\* net/url unescape
unescape(s, mode) ==
  IF unescapeOk(s, mode) THEN [err |-> FALSE, s |-> unescapeFrom(s, 1, mode)]
  ELSE [err |-> TRUE, s |-> <<>>]

(***************************************************************************)
(* regexp: the two patterns of Parse                                       *)
(***************************************************************************)
NoMatch == [found |-> FALSE, start |-> 0, end |-> 0, g1 |-> <<>>]

\* '.' of the pattern: any byte but a newline
Dot(s, lo, hi) == \A k \in lo..hi : s[k] # "0x0A"

\* s3://(\[.+?\]): matched at the 0-based index p (leftmost-first: the lazy .+?
\* takes the fewest bytes that let the rest match)
accessKeyRegexAt(s, p) ==
  IF ~OccursAt(s, <<"s", "3", ":", "/", "/", "[">>, p) THEN NoMatch
  ELSE LET ns == {n \in 1..(Len(s) - p - 8) :
                    /\ OccursAt(s, <<"]", ":">>, p + 6 + n)
                    /\ Dot(s, p + 7, p + 6 + n)}
       IN IF ns = {} THEN NoMatch
          ELSE LET n == CHOOSE x \in ns : \A y \in ns : x <= y
               IN [found |-> TRUE, start |-> p, end |-> p + 6 + n + 2,
                   g1 |-> SubSeq(s, p + 6, p + 6 + n + 1)]

\* s3://.+?:(\[.+?\])@ matched at the 0-based index p
secretKeyRegexAt(s, p) ==
  IF ~OccursAt(s, <<"s", "3", ":", "/", "/">>, p) THEN NoMatch
  ELSE LET after(m) == {n \in 1..(Len(s) - p - 9 - m) :
                          /\ OccursAt(s, <<"]", "@">>, p + 5 + m + 2 + n)
                          /\ Dot(s, p + 5 + m + 3, p + 5 + m + 2 + n)}
           ms == {m \in 1..(Len(s) - p - 10) :
                    /\ OccursAt(s, <<":", "[">>, p + 5 + m)
                    /\ Dot(s, p + 6, p + 5 + m)
                    /\ after(m) # {}}
       IN IF ms = {} THEN NoMatch
          ELSE LET m == CHOOSE x \in ms : \A y \in ms : x <= y
                   n == CHOOSE x \in after(m) : \A y \in after(m) : x <= y
               IN [found |-> TRUE, start |-> p, end |-> p + 5 + m + 2 + n + 2,
                   g1 |-> SubSeq(s, p + 5 + m + 2, p + 5 + m + 2 + n + 1)]

regexAt(re, s, p) ==
  IF re = "accessKeyRegex" THEN accessKeyRegexAt(s, p) ELSE secretKeyRegexAt(s, p)

\* The leftmost match of re in s at or after the 0-based index from.
Find(re, s, from) ==
  LET ps == {p \in from..Len(s) : regexAt(re, s, p).found}
  IN IF ps = {} THEN NoMatch
     ELSE regexAt(re, s, CHOOSE p \in ps : \A q \in ps : p <= q)

\* The function Parse hands to ReplaceAllStringFunc: the bracketed group is
\* replaced, at its first occurrence in the match, by its query-escaped content
\* with every leading and trailing bracket trimmed.
swapWrappedKey(re, wrappedKey) ==
  LET res == Find(re, wrappedKey, 0)
  IN IF ~res.found THEN wrappedKey
     ELSE Replace1(wrappedKey, res.g1, QueryEscape(Trim(res.g1, {"[", "]"})))

\* regexp.ReplaceAllStringFunc: every non-overlapping match, left to right
RECURSIVE ReplaceAllFrom(_, _, _)
ReplaceAllFrom(re, s, pos) ==
  LET m == Find(re, s, pos)
  IN IF ~m.found THEN From(s, pos)
     ELSE SubSeq(s, pos + 1, m.start)
            \o swapWrappedKey(re, SubSeq(s, m.start + 1, m.end))
            \o ReplaceAllFrom(re, s, m.end)

ReplaceAllStringFunc(re, s) == ReplaceAllFrom(re, s, 0)

\* The bracket pre-pass of Parse: the access key, then the secret key.
encodeUrn(v) ==
  ReplaceAllStringFunc("secretKeyRegex", ReplaceAllStringFunc("accessKeyRegex", v))

(***************************************************************************)
(* net/url: Parse                                                          *)
(***************************************************************************)
\* net/url getScheme from the 1-based index i: [scheme, rest, err]
RECURSIVE getSchemeFrom(_, _)
getSchemeFrom(rawURL, i) ==
  IF i > Len(rawURL) THEN [scheme |-> <<>>, rest |-> rawURL, err |-> FALSE]
  ELSE IF rawURL[i] \in LowerAlpha \/ rawURL[i] \in UpperAlpha
       THEN getSchemeFrom(rawURL, i + 1)
  ELSE IF rawURL[i] \in Digit \/ rawURL[i] \in {"+", "-", "."}
       THEN IF i = 1 THEN [scheme |-> <<>>, rest |-> rawURL, err |-> FALSE]
            ELSE getSchemeFrom(rawURL, i + 1)
  ELSE IF rawURL[i] = ":"
       THEN IF i = 1 THEN [scheme |-> <<>>, rest |-> <<>>, err |-> TRUE]
            ELSE [scheme |-> Upto(rawURL, i - 1), rest |-> From(rawURL, i), err |-> FALSE]
  ELSE [scheme |-> <<>>, rest |-> rawURL, err |-> FALSE]

getScheme(rawURL) == getSchemeFrom(rawURL, 1)

\* net/url validUserinfo
validUserinfo(s) ==
  \A i \in 1..Len(s) :
    \/ s[i] \in AlphaNum
    \/ s[i] \in {"-", ".", "_", ":", "~", "!", "$", "&", "'", "(", ")", "*", "+", ",", ";",
                 "=", "%", "@"}

\* net/url validOptionalPort
validOptionalPort(port) ==
  \/ port = <<>>
  \/ /\ port[1] = ":"
     /\ \A i \in 2..Len(port) : port[i] \in Digit

UnescapeError == [err |-> TRUE, s |-> <<>>]

\* parseHost, an IP literal with a zone: the three parts are unescaped and joined
joinHost(host1, host2, host3) ==
  IF host1.err \/ host2.err \/ host3.err THEN UnescapeError
  ELSE [err |-> FALSE, s |-> host1.s \o host2.s \o host3.s]

\* parseHost, an IP literal whose zone starts at the 0-based index zone (or -1)
parseHostZone(host, i, zone) ==
  IF zone >= 0
  THEN joinHost(unescape(Upto(host, zone), "encodeHost"),
                unescape(SubSeq(host, zone + 1, i), "encodeZone"),
                unescape(From(host, i), "encodeHost"))
  ELSE unescape(host, "encodeHost")

\* parseHost, a host that starts with '[' and whose last ']' is at the 0-based index i
parseHostLiteral(host, i) ==
  IF i < 0 THEN UnescapeError
  ELSE IF ~validOptionalPort(From(host, i + 1)) THEN UnescapeError
  ELSE parseHostZone(host, i, Index(Upto(host, i), <<"%", "2", "5">>))

\* parseHost, any other host, whose last ':' is at the 0-based index i (or -1)
parseHostName(host, i) ==
  IF i # -1 /\ ~validOptionalPort(From(host, i)) THEN UnescapeError
  ELSE unescape(host, "encodeHost")

\* net/url parseHost: [err, s]
parseHost(host) ==
  IF HasPrefix(host, <<"[">>) THEN parseHostLiteral(host, LastIndex(host, <<"]">>))
  ELSE parseHostName(host, LastIndex(host, <<":">>))

NoAuthority ==
  [err |-> FALSE, hasUser |-> FALSE, Username |-> <<>>, passwordSet |-> FALSE,
   Password |-> <<>>, Host |-> <<>>]

AuthorityError == [NoAuthority EXCEPT !.err = TRUE]

\* parseAuthority without an '@': the user is nil
hostOnly(host) ==
  IF host.err THEN AuthorityError ELSE [NoAuthority EXCEPT !.Host = host.s]

\* url.User(username)
userOnly(host, username) ==
  IF username.err THEN AuthorityError
  ELSE [NoAuthority EXCEPT !.hasUser = TRUE, !.Username = username.s, !.Host = host.s]

\* url.UserPassword(username, password)
userPassword(host, username, password) ==
  IF username.err \/ password.err THEN AuthorityError
  ELSE [NoAuthority EXCEPT !.hasUser = TRUE, !.Username = username.s,
                           !.passwordSet = TRUE, !.Password = password.s,
                           !.Host = host.s]

\* parseAuthority with an '@': the userinfo is cut at its first ':'
withUserinfo(host, userinfo) ==
  IF host.err THEN AuthorityError
  ELSE IF ~validUserinfo(userinfo) THEN AuthorityError
  ELSE IF ~Contains(userinfo, <<":">>)
       THEN userOnly(host, unescape(userinfo, "encodeUserPassword"))
  ELSE userPassword(host,
                    unescape(Cut(userinfo, <<":">>).before, "encodeUserPassword"),
                    unescape(Cut(userinfo, <<":">>).after, "encodeUserPassword"))

\* parseAuthority, the last '@' being at the 0-based index i (or -1)
parseAuthorityAt(authority, i) ==
  IF i < 0 THEN hostOnly(parseHost(authority))
  ELSE withUserinfo(parseHost(From(authority, i + 1)), Upto(authority, i))

\* net/url parseAuthority: the user (nil when there is no '@') and the host
parseAuthority(authority) == parseAuthorityAt(authority, LastIndex(authority, <<"@">>))

EmptyURL ==
  [err |-> FALSE, Scheme |-> <<>>, Opaque |-> <<>>, hasUser |-> FALSE, Username |-> <<>>,
   passwordSet |-> FALSE, Password |-> <<>>, Host |-> <<>>, Path |-> <<>>,
   RawQuery |-> <<>>]

URLError == [EmptyURL EXCEPT !.err = TRUE]

\* net/url stringContainsCTLByte: a byte below ' ' or 0x7F
stringContainsCTLByte(s) == \E i \in 1..Len(s) : s[i] \in ControlBytes

\* parse: the query is cut off at the first '?' (a lone final '?' forces an empty one)
splitQuery(rest) ==
  IF HasSuffix(rest, <<"?">>) /\ Count(rest, "?") = 1
  THEN [rest |-> Upto(rest, Len(rest) - 1), rawQuery |-> <<>>]
  ELSE [rest |-> Cut(rest, <<"?">>).before, rawQuery |-> Cut(rest, <<"?">>).after]

\* parse: url.User, url.Host and url.Path (setPath) are set
finishURL(scheme, rawQuery, auth, path) ==
  IF auth.err \/ path.err THEN URLError
  ELSE [err |-> FALSE, Scheme |-> scheme, Opaque |-> <<>>, hasUser |-> auth.hasUser,
        Username |-> auth.Username, passwordSet |-> auth.passwordSet,
        Password |-> auth.Password, Host |-> auth.Host, Path |-> path.s,
        RawQuery |-> rawQuery]

\* parse: the authority runs to the first '/', at the 0-based index i of a (or -1)
splitAuthority(scheme, rawQuery, a, i) ==
  IF i >= 0
  THEN finishURL(scheme, rawQuery, parseAuthority(Upto(a, i)),
                 unescape(From(a, i), "encodePath"))
  ELSE finishURL(scheme, rawQuery, parseAuthority(a), unescape(<<>>, "encodePath"))

\* parse, after the scheme and the query were split off
parseRest(scheme, rest, rawQuery) ==
  IF ~HasPrefix(rest, <<"/">>) /\ scheme # <<>>
  THEN [EmptyURL EXCEPT !.Scheme = scheme, !.RawQuery = rawQuery, !.Opaque = rest]
  ELSE IF ~HasPrefix(rest, <<"/">>) /\ Contains(Cut(rest, <<"/">>).before, <<":">>)
       THEN URLError
  ELSE IF /\ scheme # <<>> \/ ~HasPrefix(rest, <<"/", "/", "/">>)
          /\ HasPrefix(rest, <<"/", "/">>)
       THEN splitAuthority(scheme, rawQuery, From(rest, 2), Index(From(rest, 2), <<"/">>))
  ELSE finishURL(scheme, rawQuery, NoAuthority, unescape(rest, "encodePath"))

\* parse, after getScheme: the scheme is lowercased
parseSchemed(gs, sq) ==
  IF gs.err THEN URLError ELSE parseRest(ToLower(gs.scheme), sq.rest, sq.rawQuery)

\* net/url parse(rawURL, viaRequest = false): the URL without its fragment
parse(rawURL) ==
  IF stringContainsCTLByte(rawURL) THEN URLError
  ELSE IF rawURL = <<"*">> THEN [EmptyURL EXCEPT !.Path = <<"*">>]
  ELSE parseSchemed(getScheme(rawURL), splitQuery(getScheme(rawURL).rest))

\* url.Parse, after parse: the fragment must unescape
setFragment(url, frag) ==
  IF url.err THEN URLError
  ELSE IF frag = <<>> THEN url
  ELSE IF unescape(frag, "encodeFragment").err THEN URLError
  ELSE url

\* url.Parse: the fragment is cut off at the first '#'
urlParse(rawURL) ==
  setFragment(parse(Cut(rawURL, <<"#">>).before), Cut(rawURL, <<"#">>).after)

(***************************************************************************)
(* net/url: query values                                                   *)
(***************************************************************************)
\* url.Values is a map from a key to the list of its values.
EmptyValues == <<>>

\* m[key] = append(m[key], value)
AddValue(m, key, v) ==
  IF key \in DOMAIN m THEN [m EXCEPT ![key] = Append(@, v)] ELSE m @@ (key :> <<v>>)

RECURSIVE parseQuery(_, _)

\* parseQuery: a pair whose key or value does not unescape is dropped
addPair(m, rest, key, v) ==
  IF key.err \/ v.err THEN parseQuery(m, rest)
  ELSE parseQuery(AddValue(m, key.s, v.s), rest)

\* parseQuery: a pair that holds a semicolon, or is empty, is dropped
parsePair(m, pair, rest) ==
  IF Contains(pair, <<";">>) THEN parseQuery(m, rest)
  ELSE IF pair = <<>> THEN parseQuery(m, rest)
  ELSE addPair(m, rest,
               unescape(Cut(pair, <<"=">>).before, "encodeQueryComponent"),
               unescape(Cut(pair, <<"=">>).after, "encodeQueryComponent"))

\* net/url parseQuery
parseQuery(m, query) ==
  IF query = <<>> THEN m
  ELSE parsePair(m, Cut(query, <<"&">>).before, Cut(query, <<"&">>).after)

\* URL.Query
Query(RawQuery) == parseQuery(EmptyValues, RawQuery)

\* Values.Get: the first value of key, or ""
Get(m, key) == IF key \in DOMAIN m THEN m[key][1] ELSE <<>>

\* Values.Del
Del(m, key) == [k \in (DOMAIN m) \ {key} |-> m[k]]

(***************************************************************************)
(* package s3url                                                           *)
(***************************************************************************)
anyPrefix == <<"a", "n", "y", "P", "r", "e", "f", "i", "x">>

s3 == <<"s", "3">>

https == <<"h", "t", "t", "p", "s", ":", "/", "/">>

\* Params of a record: a nil map (the zero record) or a map
NilParams == [isNil |-> TRUE, m |-> EmptyValues]

MkParams(m) == [isNil |-> FALSE, m |-> m]

\* var s3Config S3Config
ZeroConfig ==
  [AccessKeyId |-> <<>>, SecretKey |-> <<>>, Bucket |-> <<>>, Prefix |-> <<>>,
   Endpoint |-> <<>>, EndpointHost |-> <<>>, Params |-> NilParams]

ErrNil == "nil"

ErrParse == "failed to parse the URN"

ErrScheme == "invalid scheme in the URN. Expecting s3://"

ErrSecret == "missing secret key in the URN"

ErrBucket == "missing bucket name in the URN"

ErrPrefix == "prefix must end with a slash, set anyPrefix=1 on the url to allow it."

ErrAccessKeyId == "s3Config.AccessKeyId must not be empty"

ErrSecretKey == "s3Config.SecretKey must not be empty"

ErrBucketName == "s3Config.BucketName must not be empty"

ErrEndpoint == "s3Config.Endpoint must not be empty"

Panic == "panic: runtime error: index out of range"

ValidateErrors == {ErrAccessKeyId, ErrSecretKey, ErrBucketName, ErrEndpoint}

\* Validate without its SecretKey check.
ValidateNoSecretKey(s3Config) ==
  IF s3Config.AccessKeyId = <<>> THEN ErrAccessKeyId
  ELSE IF s3Config.Bucket = <<>> THEN ErrBucketName
  ELSE IF s3Config.Endpoint = <<>> THEN ErrEndpoint
  ELSE ErrNil

\* S3Config.Validate
Validate(s3Config) ==
  IF s3Config.AccessKeyId = <<>> THEN ErrAccessKeyId
  ELSE IF s3Config.SecretKey = <<>> THEN ErrSecretKey
  ELSE IF s3Config.Bucket = <<>> THEN ErrBucketName
  ELSE IF s3Config.Endpoint = <<>> THEN ErrEndpoint
  ELSE ErrNil

\* The scheme check letting https through as well.
schemeOkOrHttps(parsedUrl) == parsedUrl.Scheme \in {s3, <<"h", "t", "t", "p", "s">>}

\* The scheme check of Parse.
schemeOk(parsedUrl) == parsedUrl.Scheme = s3

\* Extract credentials from the URL: the keys, and whether the secret key is missing.
credentials(parsedUrl) ==
  IF parsedUrl.hasUser
  THEN [accessKeyID |-> parsedUrl.Username, secretKey |-> parsedUrl.Password,
        missing |-> ~parsedUrl.passwordSet]
  ELSE [accessKeyID |-> <<>>, secretKey |-> <<>>, missing |-> FALSE]

\* The split with only one leading and one trailing slash trimmed.
pathPartsTrimOne(Path) ==
  SplitN2(SubSeq(Path,
                 IF HasPrefix(Path, <<"/">>) THEN 2 ELSE 1,
                 IF HasSuffix(Path, <<"/">>) /\ Len(Path) > 1 THEN Len(Path) - 1
                 ELSE Len(Path)),
          <<"/">>)

\* pathParts := strings.SplitN(strings.Trim(parsedUrl.Path, "/"), "/", 2)
pathPartsOf(Path) == SplitN2(Trim(Path, {"/"}), <<"/">>)

\* The read of the last byte of the path without its guard.
readsLastOfPathAlways(pathParts) == TRUE

\* Whether the code reads parsedUrl.Path[len(parsedUrl.Path)-1].
readsLastOfPath(pathParts) == Len(pathParts) > 1

\* bucketPrefix: the second piece, with the trailing slash of the path added back
bucketPrefixOf(Path, pathParts) ==
  IF Len(pathParts) > 1
  THEN IF Path[Len(Path)] = "/" THEN pathParts[2] \o <<"/">> ELSE pathParts[2]
  ELSE <<>>

\* The check asking only that the anyPrefix key is there, whatever its value.
prefixSlashOkIfKey(bucketPrefix, values) ==
  ~(/\ bucketPrefix # <<>>
    /\ bucketPrefix[Len(bucketPrefix)] # "/"
    /\ anyPrefix \notin DOMAIN values)

\* check that prefix ends in a slash: TRUE when the check lets the prefix through
prefixSlashOk(bucketPrefix, values) ==
  ~(/\ bucketPrefix # <<>>
    /\ bucketPrefix[Len(bucketPrefix)] # "/"
    /\ Get(values, anyPrefix) = <<>>)

\* Populate the S3Config struct with the extracted and decoded values
populate(parsedUrl, cred, pathParts, bucketPrefix, values) ==
  [AccessKeyId |-> cred.accessKeyID, SecretKey |-> cred.secretKey,
   Bucket |-> pathParts[1], Prefix |-> bucketPrefix,
   Endpoint |-> https \o parsedUrl.Host, EndpointHost |-> parsedUrl.Host,
   Params |-> MkParams(Del(values, anyPrefix))]

\* What Parse returns beside the error when Validate fails.
configOnValidateError(s3Config) == s3Config

\* The values of one call of Parse that the properties speak of: what it returns
\* (s3Config, err) and its local variables, as far as the call got.
NoCall ==
  [err |-> ErrNil, s3Config |-> ZeroConfig, encodedUrn |-> <<>>, parsedUrl |-> EmptyURL,
   reached |-> "none", pathParts |-> <<>>, bucketPrefix |-> <<>>, values |-> EmptyValues]

\* A return before the path is split: return s3Config, err with s3Config still zero
early(e, at, encodedUrn, parsedUrl) ==
  [NoCall EXCEPT !.err = e, !.reached = at, !.encodedUrn = encodedUrn,
                 !.parsedUrl = parsedUrl]

\* A return after the path is split and the query parsed
late(e, cfg, at, encodedUrn, parsedUrl, pathParts, bucketPrefix, values) ==
  [err |-> e, s3Config |-> cfg, encodedUrn |-> encodedUrn, parsedUrl |-> parsedUrl,
   reached |-> at, pathParts |-> pathParts, bucketPrefix |-> bucketPrefix,
   values |-> values]

\* Parse: Validate the configuration
validated(err, s3Config, encodedUrn, parsedUrl, pathParts, bucketPrefix, values) ==
  IF err # ErrNil
  THEN late(err, configOnValidateError(s3Config), "Validate", encodedUrn, parsedUrl,
            pathParts, bucketPrefix, values)
  ELSE late(ErrNil, s3Config, "Validate", encodedUrn, parsedUrl, pathParts, bucketPrefix,
            values)

\* Parse: the populated record is validated
populated(s3Config, encodedUrn, parsedUrl, pathParts, bucketPrefix, values) ==
  validated(Validate(s3Config), s3Config, encodedUrn, parsedUrl, pathParts, bucketPrefix,
            values)

\* Parse: check that prefix ends in a slash, then populate
checkPrefix(encodedUrn, parsedUrl, cred, pathParts, bucketPrefix, values) ==
  IF ~prefixSlashOk(bucketPrefix, values)
  THEN late(ErrPrefix, ZeroConfig, "prefix", encodedUrn, parsedUrl, pathParts,
            bucketPrefix, values)
  ELSE populated(populate(parsedUrl, cred, pathParts, bucketPrefix, values), encodedUrn,
                 parsedUrl, pathParts, bucketPrefix, values)

\* Parse: split the path to separate the bucket name and the prefix
splitPath(encodedUrn, parsedUrl, cred, pathParts) ==
  IF Len(pathParts) = 0 THEN early(ErrBucket, "path", encodedUrn, parsedUrl)
  ELSE IF readsLastOfPath(pathParts) /\ Len(parsedUrl.Path) = 0
       THEN early(Panic, "path", encodedUrn, parsedUrl)
  ELSE checkPrefix(encodedUrn, parsedUrl, cred, pathParts,
                   bucketPrefixOf(parsedUrl.Path, pathParts), Query(parsedUrl.RawQuery))

\* Parse: the scheme check and the credentials
checkUrl(encodedUrn, parsedUrl) ==
  IF parsedUrl.err THEN early(ErrParse, "url.Parse", encodedUrn, URLError)
  ELSE IF ~schemeOk(parsedUrl) THEN early(ErrScheme, "scheme", encodedUrn, parsedUrl)
  ELSE IF credentials(parsedUrl).missing
       THEN early(ErrSecret, "credentials", encodedUrn, parsedUrl)
  ELSE splitPath(encodedUrn, parsedUrl, credentials(parsedUrl),
                 pathPartsOf(parsedUrl.Path))

\* Parse: parse the URN using the url package
parseEncoded(encodedUrn) == checkUrl(encodedUrn, urlParse(encodedUrn))

\* func Parse(value string) (S3Config, error)
Parse(v) == parseEncoded(encodeUrn(v))

(***************************************************************************)
(* The inputs of the model                                                 *)
(***************************************************************************)
\* The longest bracketed credential, in tokens of CredTokens.
MaxCredToks == 2

\* The longest path, in tokens of PathTokens.
MaxPathToks == 5

\* Every concatenation of at most k tokens of T.
RECURSIVE Concats(_, _)
Concats(T, k) ==
  IF k = 0 THEN {<<>>}
  ELSE {<<>>} \cup {tok \o rest : tok \in T, rest \in Concats(T, k - 1)}

\* What a bracketed credential is made of: a plain byte, the bytes the README calls
\* not URL-safe, brackets, a space and a literal %XX sequence.
CredTokens ==
  {<<"a">>, <<"[">>, <<"]">>, <<":">>, <<"@">>, <<"&">>, <<"/">>, <<" ">>, <<"%", "4", "1">>}

\* The non-empty credential values v that are written [v].
CredValues == Concats(CredTokens, MaxCredToks) \ {<<>>}

PathTokens == {<<"/">>, <<"b">>, <<"p">>}

\* What follows the host: every mix of slashes and names up to the bound.
Paths == Concats(PathTokens, MaxPathToks)

Queries ==
  { <<>>,
    <<"?">>,
    <<"?", "a", "n", "y", "P", "r", "e", "f", "i", "x", "=", "1">>,
    <<"?", "a", "n", "y", "P", "r", "e", "f", "i", "x", "=">>,
    <<"?", "a", "n", "y", "P", "r", "e", "f", "i", "x">>,
    <<"?", "x", "=", "1", "&", "a", "n", "y", "P", "r", "e", "f", "i", "x", "=", "y", "e", "s", "&", "x", "=", "2">>,
    <<"?", "a", "n", "y", "P", "r", "e", "f", "i", "x", "=", "&", "a", "n", "y", "P", "r", "e", "f", "i", "x", "=", "1">>,
    <<"?", "a", "n", "y", "%", "5", "0", "r", "e", "f", "i", "x", "=", "1">>,
    <<"?", "a", "n", "y", "P", "r", "e", "f", "i", "x", "=", "1", ";">>,
    <<"?", "a", "=", "1", "&", "b", "=", "%", "z", "z", "&", "c", "=", "+", "d">>,
    <<"?", "x", "=", "s", "3", ":", "/", "/", "[", "q", "]", ":">>,
    <<"?", "x", "=", ":", "[", "q", "]", "@">>,
    <<"?", "a", "n", "y", "P", "r", "e", "f", "i", "x", "=", "1", "#", "f">> }

\* The queries that go with every scheme, userinfo and host.
FewQueries == {<<>>, <<"?", "a", "n", "y", "P", "r", "e", "f", "i", "x", "=", "1", "&", "v", "=", "1">>}

Schemes ==
  { <<"s", "3", ":", "/", "/">>,
    <<"S", "3", ":", "/", "/">>,
    <<"h", "t", "t", "p", "s", ":", "/", "/">>,
    <<"s", "3", ":", "/", "/", "/">>,
    <<"s", "3", ":", "/">>,
    <<"s", "3", ":">>,
    <<>> }

\* The userinfo with its '@', or no userinfo at all.
UserInfos ==
  { <<"a", "k", ":", "s", "k", "@">>,
    <<"a", "k", "@">>,
    <<"a", "k", ":", "@">>,
    <<":", "s", "k", "@">>,
    <<":", "@">>,
    <<"@">>,
    <<"%", "6", "1", "k", ":", "s", "%", "2", "F", "k", "@">>,
    <<"[", "a", "k", "]", ":", "[", "s", "k", "]", "@">>,
    <<>> }

Hosts == {<<"h">>, <<>>, <<"h", ":", "1">>, <<"h", ":", "x">>, <<"h", " ", "i">>}

FewPaths == {<<>>, <<"/">>, <<"/", "b">>, <<"/", "b", "/", "p", "/">>, <<"/", "b", "/", "p">>}

akskh == <<"s", "3", ":", "/", "/", "a", "k", ":", "s", "k", "@", "h">>

\* The connection strings of TestParseS3Urn.
TestUrns ==
  { <<"s", "3", ":", "/", "/", "a", "c", "c", "e", "s", "s", "K", "e", "y", "1", "2", "3", ":", "s", "e", "c", "r", "e", "t", "K", "e", "y", "1", "2", "3", "@", "e", "n", "d", "p", "o", "i", "n", "t", "/", "b", "u", "c", "k", "e", "t", "/", "p", "r", "e", "f", "i", "x", "/">>,
    <<"s", "3", ":", "/", "/", "%", "6", "1", "%", "6", "3", "%", "6", "3", "%", "6", "5", "%", "7", "3", "%", "7", "3", "%", "4", "B", "%", "6", "5", "%", "7", "9", ":", "%", "7", "3", "%", "6", "5", "%", "6", "3", "%", "7", "2", "%", "6", "5", "%", "7", "4", "%", "4", "B", "%", "6", "5", "%", "7", "9", "@", "e", "n", "d", "p", "o", "i", "n", "t", "/", "b", "u", "c", "k", "e", "t", "/", "p", "r", "e", "f", "i", "x", "/">>,
    <<"s", "3", ":", "/", "/", "[", "a", "c", "=", "@", "\\", "c", ":", "e", "/", "s", "s", "]", ":", "[", "k", "=", "?", "e", "&", "y", "@", "1", "2", "3", "]", "@", "e", "n", "d", "p", "o", "i", "n", "t", "/", "b", "u", "c", "k", "e", "t", "/", "p", "r", "e", "f", "i", "x", "?", "a", "n", "y", "P", "r", "e", "f", "i", "x", "=", "1">>,
    <<"s", "3", ":", "/", "/", "[", "a", "c", "=", "@", "\\", "c", ":", "e", "/", "s", "s", "]", ":", "[", "k", "=", "?", "e", "&", "y", "@", "1", "2", "3", "]", "@", "e", "n", "d", "p", "o", "i", "n", "t", "/", "b", "u", "c", "k", "e", "t", "/", "p", "r", "e", "f", "i", "x", "/">>,
    <<"s", "3", ":", "/", "/", "a", "c", "c", "e", "s", "s", "K", "e", "y", "1", "2", "3", ":", "s", "e", "c", "r", "e", "t", "K", "e", "y", "1", "2", "3", "@", "e", "n", "d", "p", "o", "i", "n", "t", "/", "b", "u", "c", "k", "e", "t">>,
    <<"s", "3", ":", "/", "/", "a", "c", "c", "e", "s", "s", "K", "e", "y", "1", "2", "3", ":", "s", "e", "c", "r", "e", "t", "K", "e", "y", "1", "2", "3", "@", "e", "n", "d", "p", "o", "i", "n", "t", "/", "b", "u", "c", "k", "e", "t", "/", "p", "r", "e", "f", "i", "x", "/", "s", "u", "b", "p", "r", "e", "f", "i", "x", "?", "a", "n", "y", "P", "r", "e", "f", "i", "x", "=", "1">>,
    <<"s", "3", ":", "/", "/", "a", "c", "c", "e", "s", "s", "K", "e", "y", "1", "2", "3", ":", "s", "e", "c", "r", "e", "t", "K", "e", "y", "1", "2", "3", "@", "e", "n", "d", "p", "o", "i", "n", "t", "/", "b", "u", "c", "k", "e", "t", "/", "p", "r", "e", "f", "i", "x", "/", "s", "u", "b", "p", "r", "e", "f", "i", "x", "/">>,
    <<"s", "3", ":", "/", "/", "a", "c", "c", "e", "s", "s", "K", "e", "y", "1", "2", "3", ":", "s", "e", "c", "r", "e", "t", "K", "e", "y", "1", "2", "3", "@", "e", "n", "d", "p", "o", "i", "n", "t", "/", "b", "u", "c", "k", "e", "t", "-", "n", "a", "m", "e", "/", "p", "r", "e", "f", "i", "x", "-", "n", "a", "m", "e", "/">>,
    <<"s", "3", ":", "/", "/", "a", "c", "c", "e", "s", "s", "K", "e", "y", "1", "2", "3", ":", "s", "e", "c", "r", "e", "t", "K", "e", "y", "1", "2", "3", "@", "e", "n", "d", "p", "o", "i", "n", "t", ":", "1", "2", "3", "4", "/", "b", "u", "c", "k", "e", "t", "/", "p", "r", "e", "f", "i", "x", "/">>,
    <<"s", "3", ":", "/", "/", "a", "c", "c", "e", "s", "s", "K", "e", "y", "1", "2", "3", ":", "s", "e", "c", "r", "e", "t", "K", "e", "y", "1", "2", "3", "@", "e", "n", "d", "p", "o", "i", "n", "t", "/", "b", "u", "c", "k", "e", "t", "/", "%", "7", "0", "r", "%", "6", "5", "f", "i", "x", "/">>,
    <<"s", "3", ":", "/", "/", "a", "c", "c", "e", "s", "s", "K", "e", "y", "1", "2", "3", ":", "s", "e", "c", "r", "e", "t", "K", "e", "y", "1", "2", "3", "@", "e", "n", "d", "p", "o", "i", "n", "t", "/", "b", "u", "c", "k", "e", "t", "/", "p", "r", "e", "f", "i", "x", "?", "v", "e", "r", "s", "i", "o", "n", "I", "d", "=", "1", "2", "3", "&", "a", "n", "y", "P", "r", "e", "f", "i", "x", "=", "1">>,
    <<"s", "3", ":", "/", "/", "[", "a", "c", "c", "e", "s", "s", "K", "e", "y", "1", "2", "3", "]", ":", "[", "s", "e", "c", "r", "e", "t", "K", "e", "y", "1", "2", "3", "]", "@", "e", "n", "d", "p", "o", "i", "n", "t", "/", "b", "u", "c", "k", "e", "t", "/", "p", "r", "e", "f", "i", "x", "/", "?", "v", "e", "r", "s", "i", "o", "n", "I", "d", "=", "1", "2", "3">>,
    <<"s", "3", ":", "/", "/", "[", "a", "c", "c", "[", "e", "s", "s", "K", "[", "e", "[", "]", "y", "1", "2", "3", "]", ":", "[", "s", "e", "c", "r", "e", "t", "[", "K", "[", "e", "[", "[", "y", "1", "2", "3", "]", "@", "e", "n", "d", "p", "o", "i", "n", "t", "/", "b", "u", "c", "k", "e", "t", "/", "p", "r", "e", "f", "i", "x", "/", "?", "v", "e", "r", "s", "i", "o", "n", "I", "d", "=", "1", "2", "3">>,
    <<"s", "3", ":", "/", "/", "%", "6", "1", "%", "6", "3", "%", "6", "3", "%", "6", "5", "%", "7", "3", "%", "7", "3", "%", "4", "B", "%", "6", "5", "%", "7", "9", ":", "[", "s", "%", "6", "5", "%", "6", "3", "r", "%", "6", "5", "t", "K", "e", "y", "1", "2", "3", "]", "@", "e", "n", "d", "p", "o", "i", "n", "t", "/", "b", "u", "c", "k", "e", "t", "/", "p", "r", "e", "f", "i", "x", "/", "?", "l", "i", "f", "e", "t", "i", "m", "e", "=", "3", "6", "0", "0">>,
    <<"s", "3", ":", "/", "/", "[", "%", "6", "1", "%", "6", "3", "%", "6", "3", "%", "6", "5", "%", "7", "3", "%", "7", "3", "%", "4", "B", "%", "6", "5", "%", "7", "9", "]", ":", "[", "%", "7", "3", "%", "6", "5", "%", "6", "3", "%", "7", "2", "%", "6", "5", "%", "7", "4", "%", "4", "B", "%", "6", "5", "%", "8", "2", "]", "@", "e", "n", "d", "p", "o", "i", "n", "t", "/", "b", "u", "c", "k", "e", "t", "/", "p", "r", "e", "f", "i", "x", "/", "?", "v", "e", "r", "s", "i", "o", "n", "I", "d", "=", "1", "2", "3", "&", "m", "o", "d", "e", "=", "s", "t", "r", "i", "c", "t">>,
    <<"a", "c", "c", "e", "s", "s", "K", "e", "y", "1", "2", "3", ":", "s", "e", "c", "r", "e", "t", "K", "e", "y", "1", "2", "3", "@", "e", "n", "d", "p", "o", "i", "n", "t", "/", "b", "u", "c", "k", "e", "t", "/", "p", "r", "e", "f", "i", "x", "/">>,
    <<"s", "3", ":", "/", "/", "/", "a", "c", "c", "e", "s", "s", "K", "e", "y", "1", "2", "3", ":", "s", "e", "c", "r", "e", "t", "K", "e", "y", "1", "2", "3", "@", "e", "n", "d", "p", "o", "i", "n", "t", "/", "b", "u", "c", "k", "e", "t", "/", "p", "r", "e", "f", "i", "x", "/">>,
    <<"s", "3", ":", "/", "/", ":", "s", "e", "c", "r", "e", "t", "K", "e", "y", "1", "2", "3", "@", "e", "n", "d", "p", "o", "i", "n", "t", "/", "b", "u", "c", "k", "e", "t", "/", "p", "r", "e", "f", "i", "x", "/">>,
    <<"s", "3", ":", "/", "/", "a", "c", "c", "e", "s", "s", "K", "e", "y", "1", "2", "3", ":", "@", "e", "n", "d", "p", "o", "i", "n", "t", "/", "b", "u", "c", "k", "e", "t", "/", "p", "r", "e", "f", "i", "x", "/">>,
    <<"s", "3", ":", "/", "/", ":", "@", "e", "n", "d", "p", "o", "i", "n", "t", "/", "b", "u", "c", "k", "e", "t", "/", "p", "r", "e", "f", "i", "x", "/">>,
    <<"s", "3", ":", "/", "/", "a", "c", "c", "e", "s", "s", "K", "e", "y", "1", "2", "3", ":", "s", "e", "c", "r", "e", "t", "K", "e", "y", "1", "2", "3", "@", "e", "n", "d", "p", "o", "i", "n", "t", "/">>,
    <<"s", "3", ":", "/", "/", "e", "n", "d", "p", "o", "i", "n", "t">>,
    <<"s", "3", ":", "/", "/", "@", "e", "n", "d", "p", "o", "i", "n", "t", "/", "b", "u", "c", "k", "e", "t", "/", "p", "r", "e", "f", "i", "x", "/">>,
    <<"s", "3", ":", "/", "/", "a", "c", "c", "e", "s", "s", "K", "e", "y", "1", "2", "3", ":", "s", "e", "c", "r", "e", "t", "K", "e", "y", "1", "2", "3", "@">>,
    <<"s", "3", ":", "/", "a", "c", "c", "e", "s", "s", "K", "e", "y", "1", "2", "3", ":", "s", "e", "c", "r", "e", "t", "K", "e", "y", "1", "2", "3", "@", "e", "n", "d", "p", "o", "i", "n", "t", "/", "b", "u", "c", "k", "e", "t", "/", "p", "r", "e", "f", "i", "x", "/">>,
    <<"s", "3", ":", "/", "/", "[", "a", "c", "c", "e", "s", "s", "K", "e", "y", "1", "2", "3", "]", ":", "[", "]", "@", "e", "n", "d", "p", "o", "i", "n", "t", "/", "b", "u", "c", "k", "e", "t", "/", "p", "r", "e", "f", "i", "x", "/", "?", "l", "o", "g", "g", "i", "n", "g", "=", "t", "r", "u", "e">>,
    <<"s", "3", ":", "/", "/", "[", "a", "c", "c", "e", "s", "s", "K", "e", "y", "1", "2", "3", "]", "?", "a", "p", "i", "K", "e", "y", "=", "1", "2", "3", ":", "[", "s", "e", "c", "r", "e", "t", "K", "e", "y", "1", "2", "3", "]", "@", "e", "n", "d", "p", "o", "i", "n", "t", "/", "b", "u", "c", "k", "e", "t", "/", "p", "r", "e", "f", "i", "x", "/">>,
    <<"h", "t", "t", "p", "s", ":", "/", "/", "a", "c", "c", "e", "s", "s", "K", "e", "y", "1", "2", "3", ":", "s", "e", "c", "r", "e", "t", "K", "e", "y", "1", "2", "3", "@", "e", "n", "d", "p", "o", "i", "n", "t", "/", "b", "u", "c", "k", "e", "t", "/", "p", "r", "e", "f", "i", "x", "/">>,
    <<"h", "t", "t", "p", "s", ":", "/", "/", "a", "c", "c", "e", "s", "s", "K", "e", "y", "1", "2", "3", ":", "s", "e", "c", "r", "e", "t", "K", "e", "y", "1", "2", "3", "@", "e", "n", "d", "p", "o", "i", "n", "t", "/", "b", "u", "c", "k", "e", "t", "/", "p", "r", "e", "f", "i", "x", "-", "n", "o", "t", "-", "f", "i", "n", "i", "s", "h", "e", "d">> }

\* The connection strings of BenchmarkParseS3Urn and of the README.
DocUrns ==
  { <<"s", "3", ":", "/", "/", "a", "c", "c", "e", "s", "s", "K", "e", "y", "1", "2", "3", ":", "s", "e", "c", "r", "e", "t", "K", "e", "y", "1", "2", "3", "@", "e", "n", "d", "p", "o", "i", "n", "t", "/", "b", "u", "c", "k", "e", "t", "/", "p", "r", "e", "f", "i", "x">>,
    <<"s", "3", ":", "/", "/", "a", "c", "c", "e", "s", "s", "_", "k", "e", "y", ":", "s", "e", "c", "r", "e", "t", "_", "k", "e", "y", "@", "e", "n", "d", "p", "o", "i", "n", "t", "/", "b", "u", "c", "k", "e", "t", "/", "p", "r", "e", "f", "i", "x">>,
    <<"s", "3", ":", "/", "/", "u", "s", "e", "r", "1", ":", "s", "e", "c", "r", "e", "t", "_", "k", "e", "y", "@", "s", "3", ".", "u", "s", "-", "e", "a", "s", "t", "-", "2", ".", "a", "m", "a", "z", "o", "n", "a", "w", "s", ".", "c", "o", "m", "/", "m", "y", "_", "b", "u", "c", "k", "e", "t", "/", "m", "y", "_", "p", "r", "e", "f", "i", "x">>,
    <<"s", "3", ":", "/", "/", "u", "s", "e", "r", "1", ":", "[", "s", "e", "c", "&", "r", "e", "t", "_", "k", "e", "y", "]", "@", "s", "3", ".", "u", "s", "-", "e", "a", "s", "t", "-", "2", ".", "a", "m", "a", "z", "o", "n", "a", "w", "s", ".", "c", "o", "m", "/", "m", "y", "_", "b", "u", "c", "k", "e", "t", "/", "m", "y", "_", "p", "r", "e", "f", "i", "x">>,
    <<"s", "3", ":", "/", "/", "2", "9", "d", "9", "2", "9", "f", "j", "s", "d", ":", "2", "9", "5", "9", "2", "9", "5", "0", "@", "m", "y", ".", "r", "2", ".", "c", "l", "o", "u", "d", "f", "l", "a", "r", "e", "s", "t", "o", "r", "a", "g", "e", ".", "c", "o", "m", "/", "b", "u", "c", "k", "e", "t", "_", "2">>,
    <<"s", "3", ":", "/", "/", "2", "9", "d", "9", "2", "9", "f", "j", "s", "d", ":", "2", "9", "5", "9", "2", "9", "5", "0", "@", "m", "y", ".", "r", "2", ".", "c", "l", "o", "u", "d", "f", "l", "a", "r", "e", "s", "t", "o", "r", "a", "g", "e", ".", "c", "o", "m", "/", "b", "u", "c", "k", "e", "t", "_", "2", "?", "a", "=", "1">> }

\* Inputs with no authority, no path or an escaped slash.
OddUrns ==
  { <<>>,
    <<"*">>,
    <<"s", "3", ":", "f", "o", "o">>,
    <<"s", "3", ":">>,
    <<"s", "3", ":", "/", "/">>,
    <<"s", "3", ":", "/", "/", "@">>,
    <<"s", "3", ":", "?", "a", "n", "y", "P", "r", "e", "f", "i", "x", "=", "1">>,
    <<"s", "3", ":", "/", "/", "a", "k", ":", "s", "k", "@", "h", "/", "/">>,
    <<"s", "3", ":", "/", "/", "a", "k", ":", "s", "k", "@", "h", "/", "%", "2", "F">>,
    <<"s", "3", ":", "/", "/", "a", "k", ":", "s", "k", "@", "h", "/", "b", "%", "2", "F", "p">>,
    <<"s", "3", ":", "/", "/", "a", "k", ":", "s", "k", "@", "h", "/", "b", "/", "p", "%", "2", "F">> }

\* Inputs with bytes outside printable ASCII: UTF-8 text and control bytes.
NonAsciiUrns ==
  { <<"s", "3", ":", "/", "/", "a", "k", ":", "s", "k", "@", "h", "/", "b", "/", "0xC3", "0xA9", "/">>,
    <<"s", "3", ":", "/", "/", "a", "k", ":", "s", "k", "@", "h", "0xC3", "0xA9", "/", "b", "/">>,
    <<"s", "3", ":", "/", "/", "a", "k", ":", "s", "k", "@", "h", "/", "b", "?", "q", "=", "0xE9">>,
    <<"s", "3", ":", "/", "/", "a", "k", ":", "s", "k", "@", "h", "/", "b", "/", "0xC3", "0xA9">>,
    <<"s", "3", ":", "/", "/", "a", "k", ":", "s", "k", "@", "h", "/", "b", "/", "0xC3", "0xA9", "?", "a", "n", "y", "P", "r", "e", "f", "i", "x", "=", "1">>,
    <<"s", "3", ":", "/", "/", "a", "0xC3", "0xA9", ":", "s", "k", "@", "h", "/", "b", "/">>,
    <<"s", "3", ":", "/", "/", "[", "a", "0xC3", "0xA9", "]", ":", "[", "0xFF", "]", "@", "h", "/", "b", "/">>,
    <<"s", "3", ":", "/", "/", "a", "k", ":", "s", "k", "@", "h", "/", "b", "/", "0x01">>,
    <<"s", "3", ":", "/", "/", "a", "k", ":", "s", "k", "@", "h", "0x7F", "/", "b", "/">>,
    <<"s", "3", ":", "/", "/", "a", "k", ":", "s", "k", "@", "h", "/", "b", "/", "?", "q", "=", "0x1F">>,
    <<"0xC3", "0xA9", ":", "/", "/", "a", "k", ":", "s", "k", "@", "h", "/", "b", "/">> }

\* The connection string with the access key written [v].
AccessWrapped(v) ==
  <<"s", "3", ":", "/", "/", "[">> \o v \o <<"]", ":", "s", "k", "@", "h", "/", "b", "/">>

\* The connection string with the secret key written [v].
SecretWrapped(v) ==
  <<"s", "3", ":", "/", "/", "a", "k", ":", "[">> \o v \o <<"]", "@", "h", "/", "b", "/">>

\* The connection string with both keys written [v].
BothWrapped(v) ==
  <<"s", "3", ":", "/", "/", "[">> \o v \o <<"]", ":", "[">> \o v
    \o <<"]", "@", "h", "/", "b", "/">>

BracketedAccess == {AccessWrapped(v) : v \in CredValues}

BracketedSecret == {SecretWrapped(v) : v \in CredValues}

BracketedBoth == {BothWrapped(v) : v \in CredValues}

PathAndQuery == {akskh \o p \o q : p \in Paths, q \in Queries}

SchemeUserHost ==
  {sc \o ui \o h \o p \o q :
     sc \in Schemes, ui \in UserInfos, h \in Hosts, p \in FewPaths, q \in FewQueries}

Inputs ==
  TestUrns \cup DocUrns \cup OddUrns \cup NonAsciiUrns \cup BracketedAccess
    \cup BracketedSecret \cup BracketedBoth \cup PathAndQuery \cup SchemeUserHost

(***************************************************************************)
(* The state machine: one call of Parse on one input                       *)
(***************************************************************************)
Init ==
  /\ value \in Inputs
  /\ pc = "call"
  /\ ret = NoCall

\* config, err := Parse(value)
Call ==
  /\ pc = "call"
  /\ ret' = Parse(value)
  /\ pc' = "done"
  /\ UNCHANGED value

Next == Call

Spec == Init /\ [][Next]_vars

(***************************************************************************)
(* Properties                                                              *)
(***************************************************************************)
\* The call has returned.
Done == pc = "done"

\* The call came as far as the prefix check: it passed url.Parse, the scheme
\* check and the credential check.
PastCredentials == Done /\ ret.reached \in {"prefix", "Validate"}

\* s is non-empty and its last byte is not '/'.
NoTrailingSlash(s) == s # <<>> /\ s[Len(s)] # "/"

\* The parsed query has an anyPrefix key whose first value is not empty.
AnyPrefixSet == anyPrefix \in DOMAIN ret.values /\ ret.values[anyPrefix][1] # <<>>

\* C1: once the scheme and credential checks are passed, a prefix that is non-empty
\* and does not end in '/' makes Parse fail with the prefix-slash error when the
\* query has no anyPrefix or its first value is empty; with a non-empty anyPrefix the
\* call goes on and the Prefix it populates is the prefix as computed, no slash
\* added.  A prefix that is empty or ends in '/' never gives the prefix-slash error.
C1_PrefixSlashPolicy ==
  PastCredentials =>
    IF NoTrailingSlash(ret.bucketPrefix)
    THEN IF AnyPrefixSet
         THEN /\ ret.err # ErrPrefix
              /\ ret.s3Config.Prefix = ret.bucketPrefix
              /\ NoTrailingSlash(ret.s3Config.Prefix)
         ELSE ret.err = ErrPrefix
    ELSE ret.err # ErrPrefix

\* A call that succeeds with a prefix without a trailing slash, thanks to anyPrefix.
C1_Witness ==
  /\ PastCredentials
  /\ ret.err = ErrNil
  /\ AnyPrefixSet
  /\ NoTrailingSlash(ret.s3Config.Prefix)

\* The connection strings of the documented form with a prefix that has no trailing
\* slash and no query string, with the bucket and the prefix they name.
DocumentedForm ==
  { [urn |-> <<"s", "3", ":", "/", "/", "a", "c", "c", "e", "s", "s", "K", "e", "y", "1", "2", "3", ":", "s", "e", "c", "r", "e", "t", "K", "e", "y", "1", "2", "3", "@", "e", "n", "d", "p", "o", "i", "n", "t", "/", "b", "u", "c", "k", "e", "t", "/", "p", "r", "e", "f", "i", "x">>,
     bucket |-> <<"b", "u", "c", "k", "e", "t">>,
     prefix |-> <<"p", "r", "e", "f", "i", "x">>],
    [urn |-> <<"s", "3", ":", "/", "/", "a", "c", "c", "e", "s", "s", "_", "k", "e", "y", ":", "s", "e", "c", "r", "e", "t", "_", "k", "e", "y", "@", "e", "n", "d", "p", "o", "i", "n", "t", "/", "b", "u", "c", "k", "e", "t", "/", "p", "r", "e", "f", "i", "x">>,
     bucket |-> <<"b", "u", "c", "k", "e", "t">>,
     prefix |-> <<"p", "r", "e", "f", "i", "x">>],
    [urn |-> <<"s", "3", ":", "/", "/", "u", "s", "e", "r", "1", ":", "s", "e", "c", "r", "e", "t", "_", "k", "e", "y", "@", "s", "3", ".", "u", "s", "-", "e", "a", "s", "t", "-", "2", ".", "a", "m", "a", "z", "o", "n", "a", "w", "s", ".", "c", "o", "m", "/", "m", "y", "_", "b", "u", "c", "k", "e", "t", "/", "m", "y", "_", "p", "r", "e", "f", "i", "x">>,
     bucket |-> <<"m", "y", "_", "b", "u", "c", "k", "e", "t">>,
     prefix |-> <<"m", "y", "_", "p", "r", "e", "f", "i", "x">>] }

\* C2: a connection string of the documented form, with a prefix without a trailing
\* slash and no query string, is parsed without error into its bucket and prefix.
C2_DocumentedFormParses ==
  Done =>
    \A d \in DocumentedForm :
      value = d.urn =>
        /\ ret.err = ErrNil
        /\ ret.s3Config.Bucket = d.bucket
        /\ ret.s3Config.Prefix = d.prefix

\* C3: for every non-empty v, writing the access key and/or the secret key as [v]
\* makes Parse return exactly v in AccessKeyId / SecretKey.
C3_BracketRoundTrip ==
  Done =>
    \A v \in CredValues :
      /\ value = AccessWrapped(v) => ret.err = ErrNil /\ ret.s3Config.AccessKeyId = v
      /\ value = SecretWrapped(v) => ret.err = ErrNil /\ ret.s3Config.SecretKey = v
      /\ value = BothWrapped(v) =>
           /\ ret.err = ErrNil
           /\ ret.s3Config.AccessKeyId = v
           /\ ret.s3Config.SecretKey = v

\* C4: no successful result has an empty EndpointHost.
C4_NoEmptyHostOnSuccess == Done /\ ret.err = ErrNil => ret.s3Config.EndpointHost # <<>>

\* C5: whenever Parse returns an error, the record beside it is the zero record.
C5_ZeroRecordOnError == Done /\ ret.err # ErrNil => ret.s3Config = ZeroConfig

\* value begins with the scheme token "s3://" written in the given spellings of 's'
\* and is followed by a non-empty authority.
BeginsWithS3(spellings) ==
  /\ Len(value) >= 6
  /\ value[1] \in spellings
  /\ SubSeq(value, 2, 5) = <<"3", ":", "/", "/">>
  /\ value[6] \notin {"/", "?", "#"}

\* C6 as stated: the scheme token is case-sensitive, so every successful input
\* begins with the literal lowercase s3:// followed by a non-empty authority.
C6_SchemeCaseSensitive == Done /\ ret.err = ErrNil => BeginsWithS3({"s"})

\* C6, amended: the scheme is compared after url.Parse has lowercased it, so every
\* successful input begins with s3:// or S3:// followed by a non-empty authority;
\* an input with no scheme, another scheme (https) or an empty authority (s3:///)
\* never yields a successful record.
C6_SchemeCaseInsensitive == Done /\ ret.err = ErrNil => BeginsWithS3({"s", "S"})

\* A successful call on an input whose scheme is spelled S3.
C6_Witness == Done /\ ret.err = ErrNil /\ BeginsWithS3({"S"})

\* The query-parameter mapping of the input string itself, anyPrefix removed.
OwnParams == Del(Query(urlParse(value).RawQuery), anyPrefix)

\* C7: no returned record has an anyPrefix key in Params, and on success Params is
\* the query-parameter mapping of the input string with anyPrefix removed (stated
\* for the inputs that are URLs as they stand).
C7_ParamsPassThrough ==
  Done =>
    /\ anyPrefix \notin DOMAIN ret.s3Config.Params.m
    /\ ret.err = ErrNil /\ ~urlParse(value).err => ret.s3Config.Params.m = OwnParams

\* s without the slashes it starts with.
RECURSIVE DropLeadingSlashes(_)
DropLeadingSlashes(s) ==
  IF s # <<>> /\ Head(s) = "/" THEN DropLeadingSlashes(Tail(s)) ELSE s

\* s without the slashes it ends with.
RECURSIVE DropTrailingSlashes(_)
DropTrailingSlashes(s) ==
  IF s # <<>> /\ s[Len(s)] = "/" THEN DropTrailingSlashes(SubSeq(s, 1, Len(s) - 1)) ELSE s

\* s without one leading and one trailing slash.
DropOneSlashEachEnd(s) ==
  SubSeq(s, IF s # <<>> /\ Head(s) = "/" THEN 2 ELSE 1,
            IF Len(s) > 1 /\ s[Len(s)] = "/" THEN Len(s) - 1 ELSE Len(s))

\* The bucket of a trimmed path: what comes before its first '/'.
BucketOf(trimmed) ==
  IF \E i \in 1..Len(trimmed) : trimmed[i] = "/"
  THEN SubSeq(trimmed, 1, (CHOOSE i \in 1..Len(trimmed) :
                             /\ trimmed[i] = "/"
                             /\ \A j \in 1..(i - 1) : trimmed[j] # "/") - 1)
  ELSE trimmed

\* The prefix of a trimmed path: what comes after its first '/', with a '/' added
\* when there is such a piece and the path P ended with '/'.
PrefixOf(trimmed, P) ==
  IF \E i \in 1..Len(trimmed) : trimmed[i] = "/"
  THEN SubSeq(trimmed, Len(BucketOf(trimmed)) + 2, Len(trimmed))
         \o (IF P[Len(P)] = "/" THEN <<"/">> ELSE <<>>)
  ELSE <<>>

\* The path decomposition of a call that came as far as the prefix check, for a
\* given way of trimming the decoded path: the prefix the call computed, and the
\* Bucket and Prefix of the record it returned without an error.
Decomposes(trimmed) ==
  /\ ret.bucketPrefix = PrefixOf(trimmed, ret.parsedUrl.Path)
  /\ BucketOf(trimmed) = <<>> => ret.err # ErrNil
  /\ ret.err = ErrNil =>
       /\ ret.s3Config.Bucket = BucketOf(trimmed)
       /\ ret.s3Config.Prefix = PrefixOf(trimmed, ret.parsedUrl.Path)

\* C8 as stated: exactly one leading and one trailing '/' are trimmed from the
\* decoded path before it is split at its first '/', so extra slashes stay.
C8_TrimsOneSlash ==
  PastCredentials => Decomposes(DropOneSlashEachEnd(ret.parsedUrl.Path))

\* C8, amended: every leading and trailing '/' is trimmed from the decoded path P
\* and the result is split at its first '/'; Bucket is the first piece and must be
\* non-empty or Parse fails, Prefix is the second piece (empty when there is none),
\* and a '/' is appended to Prefix exactly when a second piece exists and P ended
\* with '/'.  A doubled leading or trailing slash is collapsed.
C8_TrimsEverySlash ==
  PastCredentials =>
    Decomposes(DropTrailingSlashes(DropLeadingSlashes(ret.parsedUrl.Path)))

\* A successful call on a path with a doubled leading slash, a bucket and a prefix.
C8_Witness ==
  /\ Done
  /\ ret.err = ErrNil
  /\ HasPrefix(ret.parsedUrl.Path, <<"/", "/">>)
  /\ ret.s3Config.Bucket # <<>>
  /\ ret.s3Config.Prefix # <<>>

\* The decoded path holds no bucket segment: it is empty or made of slashes.
NoBucketSegment == \A i \in 1..Len(ret.parsedUrl.Path) : ret.parsedUrl.Path[i] = "/"

\* C9: a record returned without an error has non-empty AccessKeyId, SecretKey and
\* Bucket; so Parse fails on an input with no userinfo, an empty username, no ':'
\* password delimiter, an empty password or no bucket segment in the path.
C9_SuccessInvariant ==
  Done =>
    /\ ret.err = ErrNil =>
         /\ ret.s3Config.AccessKeyId # <<>>
         /\ ret.s3Config.SecretKey # <<>>
         /\ ret.s3Config.Bucket # <<>>
    /\ \/ ~ret.parsedUrl.hasUser
       \/ ret.parsedUrl.Username = <<>>
       \/ ~ret.parsedUrl.passwordSet
       \/ ret.parsedUrl.Password = <<>>
       \/ NoBucketSegment
       => ret.err # ErrNil

\* A call that Validate fails because the password is there but empty.
C9_Witness ==
  /\ Done
  /\ ret.parsedUrl.passwordSet
  /\ ret.parsedUrl.Password = <<>>
  /\ ret.parsedUrl.Username # <<>>
  /\ ~NoBucketSegment
  /\ ret.err = ErrSecretKey

\* C10: Parse returns a record or an error on every input and never reads past the
\* end of a string: the last byte of the path is read only when the path is not
\* empty, because a second path piece exists only then.
C10_NoIndexOutOfRange ==
  Done =>
    /\ ret.err # Panic
    /\ ret.reached # "none"
    /\ Len(ret.pathParts) > 1 => ret.parsedUrl.Path # <<>>

\* A call on an input with an empty path that came to Validate.
C10_Witness ==
  /\ Done
  /\ ret.reached = "Validate"
  /\ ret.parsedUrl.Path = <<>>
  /\ Len(ret.pathParts) = 1

====
